---- MODULE Spec2Model ----
(***************************************************************************)
(* Model of OpenFOAM/airfoil/naca0018_generator.py: the curve generator    *)
(* generate_bent_airfoil_coordinates and the STL writer                    *)
(* write_airfoils_to_stl.                                                  *)
(*                                                                         *)
(* Reals are fixed-point integers in units of 1/Scale (seven decimal       *)
(* digits), one digit more than the six the writer prints, so that the     *)
(* "%.6f" conversion has a digit to round.                                 *)
(***************************************************************************)
EXTENDS Integers, Sequences, FiniteSets, TLC

\* ------------------------------------------------------------ bounds
\* Largest n_points of a drawn shape (the smallest drawn is -1).
MaxN == 4
\* Longest list of shapes handed to write_airfoils_to_stl.
MaxShapes == 2

\* ------------------------------------------------------------ arithmetic
\* One unit of the fixed-point representation of a float: 1.0 is Scale.
Scale == 10000000

Abs(a) == IF a < 0 THEN -a ELSE a

Sgn(a) == IF a < 0 THEN -1 ELSE 1

\* The float product a * b, truncated to the representation.  The operands
\* are split in a high and a low half so that no partial product leaves
\* the 32-bit range.
MulS(a, b) ==
    LET x  == Abs(a)
        y  == Abs(b)
        x1 == x \div 10000
        x0 == x % 10000
        y1 == y \div 10000
        y0 == y % 10000
    IN  Sgn(a) * Sgn(b) *
        (x1 * y1 * 10 + ((x1 * y0 + x0 * y1 + ((x0 * y0) \div 10000)) \div 1000))

\* d digits of the quotient r / b for 0 <= r < b, by long division.
RECURSIVE LongDiv(_, _, _)
LongDiv(r, b, d) ==
    IF d = 0 THEN 0
    ELSE LET t == r * 10
         IN  (t \div b) * (10 ^ (d - 1)) + LongDiv(t % b, b, d - 1)

\* The float quotient a / b (b # 0), truncated to the representation.
DivS(a, b) ==
    LET x == Abs(a)
        y == Abs(b)
    IN  Sgn(a) * Sgn(b) * ((x \div y) * Scale + LongDiv(x % y, y, 7))

\* np.sqrt for a >= 0, by Newton's iteration from above.
RECURSIVE SqrtIter(_, _)
SqrtIter(a, y) ==
    LET z == (y + DivS(a, y)) \div 2
    IN  IF z >= y THEN y ELSE SqrtIter(a, z)

SqrtS(a) == IF a <= 0 THEN 0 ELSE SqrtIter(a, IF a > Scale THEN a ELSE Scale)

\* np.pi, math.pi
Pi == 31415927

\* The terms of a Taylor series from term number j on: each term is the
\* previous one times -b2 / (j (j + 1)); the series ends with the first
\* term that vanishes in the representation.
RECURSIVE Series(_, _, _)
Series(b2, term, j) ==
    IF term = 0 THEN 0
    ELSE term + Series(b2, -(MulS(term, b2) \div (j * (j + 1))), j + 2)

\* cos for 0 <= b <= pi/2 and sin for 0 <= b <= pi/2
CosSeries(b) == Series(MulS(b, b), Scale, 1)

SinSeries(b) == Series(MulS(b, b), b, 2)

\* np.cos / math.cos on [-pi, pi]
CosS(b) ==
    LET a == Abs(b)
    IN  IF 2 * a > Pi THEN -CosSeries(Pi - a) ELSE CosSeries(a)

\* math.sin on [-pi, pi]
SinS(b) ==
    LET a == Abs(b)
    IN  Sgn(b) * (IF 2 * a > Pi THEN SinSeries(Pi - a) ELSE SinSeries(a))

\* math.radians: degrees times pi / 180
Radians(deg) == MulS(deg, 174533)

\* ------------------------------------------------------------ inputs
\* An airfoil_params dict: the keys read at lines 79-86.
Params(n, chord, xo, yo, angle, bend, tf, te) ==
    [n_points |-> n, chord |-> chord, x_offset |-> xo, y_offset |-> yo,
     angle |-> angle, bend_factor |-> bend,
     thickness_front |-> tf, thickness_end |-> te]

\* The keyword defaults of generate_bent_airfoil_coordinates: chord 1.0,
\* no offset, no rotation, no bend, thickness 0.18 to 0.05.
DefaultShape(n) == Params(n, Scale, 0, 0, 0, 0, 1800000, 500000)

\* The second entry of airfoils_to_generate: chord 0.9, offset (1.75, 0.5),
\* angle 35.0, bend_factor -0.3, thickness 0.18 to 0.03.
SecondShape(n) ==
    Params(n, 9000000, 17500000, 5000000, 35 * Scale, -3000000, 1800000, 300000)

\* The values of n_points drawn: negative, zero, one, and the curves proper.
NPoints == (-1) .. MaxN

\* The shapes drawn: the rotated and displaced one at every n_points, the
\* one of the defaults at the largest.
Shapes == {SecondShape(n) : n \in NPoints} \cup {DefaultShape(MaxN)}

\* The lists of shapes drawn, the empty list included.
ShapeLists == UNION {[1 .. m -> Shapes] : m \in 0 .. MaxShapes}

\* The spans drawn: the default 0.1 of write_airfoils_to_stl and the 1.0 of
\* the call at the end of the script.
Spans == {1000000, Scale}

\* ------------------------------------------------------------ curve generator
\* np.linspace(0, np.pi, n)[i] for n >= 1: i steps of pi / (n - 1), the last
\* point being the stop value itself.
Linspace(n, i) ==
    IF n = 1 THEN 0
    ELSE IF i = n - 1 THEN Pi
    ELSE (i * Pi) \div (n - 1)

\* Mutant: an empty sample is refused too.
LinspaceRaisesOnEmpty(n) == n <= 0

\* np.linspace raises ValueError for a negative number of samples.
LinspaceRaises(n) == n < 0

\* x[i] = 0.5 * chord_length * (1 - np.cos(beta[i]))
StationX(p, i) ==
    MulS(MulS(5000000, p.chord), Scale - CosS(Linspace(p.n_points, i)))

\* x / chord_length
Xi(p, x) == DivS(x, p.chord)

\* thickness_front * (1 - x / chord_length) + thickness_end * (x / chord_length)
ThicknessTaper(p, xi) ==
    MulS(p.thickness_front, Scale - xi) + MulS(p.thickness_end, xi)

\* 0.2969 sqrt(xi) - 0.1260 xi - 0.3516 xi^2 + 0.2843 xi^3 - 0.1015 xi^4
Profile(xi) ==
    LET xi2 == MulS(xi, xi)
        xi3 == MulS(xi2, xi)
        xi4 == MulS(xi3, xi)
    IN  MulS(2969000, SqrtS(xi)) - MulS(1260000, xi) - MulS(3516000, xi2)
        + MulS(2843000, xi3) - MulS(1015000, xi4)

\* y_t = 5 * thickness_taper * chord_length * (profile)
HalfThickness(p, xi) ==
    MulS(MulS(5 * ThicknessTaper(p, xi), p.chord), Profile(xi))

\* camber_y = bend_factor * (x / chord_length) * (1 - x / chord_length)
CamberY(p, xi) == MulS(MulS(p.bend_factor, xi), Scale - xi)

\* Mutant: the lower surface runs from the trailing edge to the leading edge.
XLowerReversed(p, i) == StationX(p, p.n_points - 1 - i)

\* x_upper = x, y_upper = y_t + camber_y, x_lower = x, y_lower = -y_t + camber_y
XUpper(p, i) == StationX(p, i)

YUpper(yt, camber) == yt + camber

XLower(p, i) == StationX(p, i)

YLower(yt, camber) == -yt + camber

CosAlpha(p) == CosS(Radians(p.angle))

SinAlpha(p) == SinS(Radians(p.angle))

\* The rotation by the angle of attack followed by the translation.
RotateX(p, cos_a, sin_a, x, y) == MulS(x, cos_a) - MulS(y, sin_a) + p.x_offset

RotateY(p, cos_a, sin_a, x, y) == MulS(x, sin_a) + MulS(y, cos_a) + p.y_offset

\* Entry j of each of the four arrays returned.
Coordinate(p, cos_a, sin_a, j) ==
    LET xi == Xi(p, StationX(p, j))
        yt == HalfThickness(p, xi)
        camber == CamberY(p, xi)
        xu == XUpper(p, j)
        yu == YUpper(yt, camber)
        xl == XLower(p, j)
        yl == YLower(yt, camber)
    IN  [x_upper |-> RotateX(p, cos_a, sin_a, xu, yu),
         y_upper |-> RotateY(p, cos_a, sin_a, xu, yu),
         x_lower |-> RotateX(p, cos_a, sin_a, xl, yl),
         y_lower |-> RotateY(p, cos_a, sin_a, xl, yl)]

\* The entries at the subscripts 0 .. n - 1, in that order.
RECURSIVE Coordinates(_, _, _, _)
Coordinates(p, cos_a, sin_a, n) ==
    IF n <= 0 THEN <<>>
    ELSE Append(Coordinates(p, cos_a, sin_a, n - 1),
                Coordinate(p, cos_a, sin_a, n - 1))

\* The first n entries of one array: a sequence whose element j + 1 is the
\* entry at subscript j.
RECURSIVE Array(_, _, _)
Array(cs, name, n) ==
    IF n <= 0 THEN <<>> ELSE Append(Array(cs, name, n - 1), cs[n][name])

\* The four arrays returned, each of n_points entries.
Generate(p) ==
    LET cs == Coordinates(p, CosAlpha(p), SinAlpha(p), p.n_points)
    IN  [x_upper |-> Array(cs, "x_upper", Len(cs)),
         y_upper |-> Array(cs, "y_upper", Len(cs)),
         x_lower |-> Array(cs, "x_lower", Len(cs)),
         y_lower |-> Array(cs, "y_lower", Len(cs))]

\* ------------------------------------------------------------ text
\* A number as written in the file: its sign, its integer part and the
\* digits after the decimal point.
NumText(neg, int, frac) == [neg |-> neg, int |-> int, frac |-> frac]

\* The d low decimal digits of m, most significant first.
RECURSIVE Digits(_, _)
Digits(m, d) ==
    IF d = 0 THEN <<>> ELSE Append(Digits(m \div 10, d - 1), m % 10)

\* Mutant: the conversion {v:.5f}.
Fmt5(v) ==
    LET a == Abs(v)
        q == a \div 100
        r == a % 100
        m == IF r > 50 \/ (r = 50 /\ q % 2 = 1) THEN q + 1 ELSE q
    IN  NumText(v < 0, m \div 100000, Digits(m % 100000, 5))

\* The conversion {v:.6f}: v rounded to six decimals, ties to even, the
\* sign of a negative v kept even when it rounds to zero.
Fmt6(v) ==
    LET a == Abs(v)
        q == a \div 10
        r == a % 10
        m == IF r > 5 \/ (r = 5 /\ q % 2 = 1) THEN q + 1 ELSE q
    IN  NumText(v < 0, m \div 1000000, Digits(m % 1000000, 6))

\* The literals 0.0, 1.0 and -1.0 of the format strings.
ZeroLit == NumText(FALSE, 0, <<0>>)

OneLit == NumText(FALSE, 1, <<0>>)

MinusOneLit == NumText(TRUE, 1, <<0>>)

\* The normals written: "0.0 0.0 1.0" and "0.0 0.0 -1.0".
NormalUp == <<ZeroLit, ZeroLit, OneLit>>

NormalDown == <<ZeroLit, ZeroLit, MinusOneLit>>

\* The name written after solid and endsolid.
SolidName == "three_naca_airfoils"

\* One line of the file: its keyword, the name and the numbers after it.
Line(kind, name, nums) == [kind |-> kind, name |-> name, nums |-> nums]

\* Mutant: the endloop line is left out.
FacetLinesNoEndloop(nrm, v1, v2, v3) ==
    << Line("facet normal", "", nrm),
       Line("outer loop", "", <<>>),
       Line("vertex", "", v1),
       Line("vertex", "", v2),
       Line("vertex", "", v3),
       Line("endfacet", "", <<>>) >>

\* The seven lines of one facet with normal nrm and vertices v1, v2, v3.
FacetLines(nrm, v1, v2, v3) ==
    << Line("facet normal", "", nrm),
       Line("outer loop", "", <<>>),
       Line("vertex", "", v1),
       Line("vertex", "", v2),
       Line("vertex", "", v3),
       Line("endloop", "", <<>>),
       Line("endfacet", "", <<>>) >>

\* ------------------------------------------------------------ writer state
VARIABLES
    airfoils,   \* the list of airfoil_params handed to write_airfoils_to_stl
    span,       \* the span handed to write_airfoils_to_stl
    pc,         \* where the writer is
    k,          \* the position in airfoils of the shape being written
    curves,     \* x_upper, y_upper, x_lower, y_lower as the generator
                \* returned them, shape by shape
    i,          \* the loop index
    out,        \* the lines written to the file so far
    facets      \* for each facet written: its shape, loop, index and the
                \* three vertices it was written from

vars == <<airfoils, span, pc, k, curves, i, out, facets>>

\* The arrays of the shape being written.
curve == curves[k]

\* a[j] as Python evaluates it: a negative j counts from the end.
PyIndex(a, j) == IF j < 0 THEN a[Len(a) + j + 1] ELSE a[j + 1]

\* Mutant: n = len(x_upper) - 1
NOneShort == Len(curve.x_upper) - 1

\* n = len(x_upper)
N == Len(curve.x_upper)

\* The z written at the front plane, the literal 0.0, and at the back
\* plane, {span:.6f}.
ZFront == ZeroLit

ZBack == Fmt6(span)

\* A vertex as the source names it: the surface, the subscript and the plane.
Upper(j, plane) == [surface |-> "upper", sub |-> j, plane |-> plane]

Lower(j, plane) == [surface |-> "lower", sub |-> j, plane |-> plane]

\* Mutant: the x of an upper vertex is read from x_lower.
UpperVertexFromLower(j, z) ==
    <<Fmt6(PyIndex(curve.x_lower, j)), Fmt6(PyIndex(curve.y_upper, j)), z>>

\* The three numbers of a vertex line of the upper / the lower surface.
UpperVertex(j, z) ==
    <<Fmt6(PyIndex(curve.x_upper, j)), Fmt6(PyIndex(curve.y_upper, j)), z>>

LowerVertex(j, z) ==
    <<Fmt6(PyIndex(curve.x_lower, j)), Fmt6(PyIndex(curve.y_lower, j)), z>>

VertexText(v) ==
    LET z == IF v.plane = "front" THEN ZFront ELSE ZBack
    IN  IF v.surface = "upper" THEN UpperVertex(v.sub, z) ELSE LowerVertex(v.sub, z)

\* The file after one more facet, and the record kept of that facet.
WriteFacet(o, nrm, vs) ==
    o \o FacetLines(nrm, VertexText(vs[1]), VertexText(vs[2]), VertexText(vs[3]))

Facet(section, t, vs) ==
    [shape |-> k, section |-> section, i |-> i, t |-> t, verts |-> vs]

Init ==
    /\ airfoils \in ShapeLists
    /\ span \in Spans
    /\ pc = "start"
    /\ k = 1
    /\ curves = <<>>
    /\ i = 0
    /\ out = <<>>
    /\ facets = <<>>

\* open(filename, 'w') and the solid line
OpenFile ==
    /\ pc = "start"
    /\ out' = Append(out, Line("solid", SolidName, <<>>))
    /\ pc' = "shape"
    /\ UNCHANGED <<airfoils, span, k, curves, i, facets>>

\* Mutant: the offsets of a shape are taken from where the shape before it
\* was placed.
GenerateCurveRelative ==
    /\ pc = "shape"
    /\ k <= Len(airfoils)
    /\ ~LinspaceRaises(airfoils[k].n_points)
    /\ curves' = Append(curves, Generate([airfoils[k] EXCEPT
                    !.x_offset = @ + (IF k > 1 THEN airfoils[k - 1].x_offset ELSE 0),
                    !.y_offset = @ + (IF k > 1 THEN airfoils[k - 1].y_offset ELSE 0)]))
    /\ i' = 0
    /\ pc' = "top"
    /\ UNCHANGED <<airfoils, span, k, out, facets>>

\* for airfoil_params in airfoils: the generator returns the curve
GenerateCurve ==
    /\ pc = "shape"
    /\ k <= Len(airfoils)
    /\ ~LinspaceRaises(airfoils[k].n_points)
    /\ curves' = Append(curves, Generate(airfoils[k]))
    /\ i' = 0
    /\ pc' = "top"
    /\ UNCHANGED <<airfoils, span, k, out, facets>>

\* for airfoil_params in airfoils: the generator raises, and the with
\* statement closes the file on the way out
GenerateRaises ==
    /\ pc = "shape"
    /\ k <= Len(airfoils)
    /\ LinspaceRaises(airfoils[k].n_points)
    /\ pc' = "raised"
    /\ UNCHANGED <<airfoils, span, k, curves, i, out, facets>>

\* Mutant: the upper surface loop runs from the trailing edge backwards.
TopStepReversed ==
    /\ pc = "top"
    /\ i < N - 1
    /\ LET j  == N - 2 - i
           t1 == <<Upper(j, "front"), Upper(j + 1, "front"), Upper(j, "back")>>
           t2 == <<Upper(j + 1, "front"), Upper(j + 1, "back"), Upper(j, "back")>>
       IN  /\ out' = WriteFacet(WriteFacet(out, NormalUp, t1), NormalUp, t2)
           /\ facets' = facets \o <<[Facet("top", 1, t1) EXCEPT !.i = j],
                                     [Facet("top", 2, t2) EXCEPT !.i = j]>>
    /\ i' = i + 1
    /\ UNCHANGED <<airfoils, span, pc, k, curves>>

\* One pass of the upper surface loop: two facets.
TopStep ==
    /\ pc = "top"
    /\ i < N - 1
    /\ LET t1 == <<Upper(i, "front"), Upper(i + 1, "front"), Upper(i, "back")>>
           t2 == <<Upper(i + 1, "front"), Upper(i + 1, "back"), Upper(i, "back")>>
       IN  /\ out' = WriteFacet(WriteFacet(out, NormalUp, t1), NormalUp, t2)
           /\ facets' = facets \o <<Facet("top", 1, t1), Facet("top", 2, t2)>>
    /\ i' = i + 1
    /\ UNCHANGED <<airfoils, span, pc, k, curves>>

\* The upper surface loop ends.
TopDone ==
    /\ pc = "top"
    /\ ~(i < N - 1)
    /\ pc' = "bottom"
    /\ i' = 0
    /\ UNCHANGED <<airfoils, span, k, curves, out, facets>>

\* One pass of the lower surface loop: two facets.
BottomStep ==
    /\ pc = "bottom"
    /\ i < N - 1
    /\ LET t1 == <<Lower(i, "front"), Lower(i, "back"), Lower(i + 1, "front")>>
           t2 == <<Lower(i + 1, "front"), Lower(i, "back"), Lower(i + 1, "back")>>
       IN  /\ out' = WriteFacet(WriteFacet(out, NormalDown, t1), NormalDown, t2)
           /\ facets' = facets \o <<Facet("bottom", 1, t1), Facet("bottom", 2, t2)>>
    /\ i' = i + 1
    /\ UNCHANGED <<airfoils, span, pc, k, curves>>

\* The lower surface loop ends.
BottomDone ==
    /\ pc = "bottom"
    /\ ~(i < N - 1)
    /\ pc' = "front"
    /\ i' = 0
    /\ UNCHANGED <<airfoils, span, k, curves, out, facets>>

\* Mutants: the test left out, and the test i <= n//2.
CappedAlways(n, j) == TRUE

CappedInclusive(n, j) == j <= n \div 2

\* The test of both cap loops: if i < n//2
Capped(n, j) == j < n \div 2

\* One pass of the front cap loop: one facet when the index is capped.
FrontStep ==
    /\ pc = "front"
    /\ i < N - 1
    /\ IF Capped(N, i)
       THEN LET t1 == <<Upper(i, "front"), Lower(N - 1 - i, "front"),
                        Upper(i + 1, "front")>>
            IN  /\ out' = WriteFacet(out, NormalDown, t1)
                /\ facets' = Append(facets, Facet("front", 1, t1))
       ELSE UNCHANGED <<out, facets>>
    /\ i' = i + 1
    /\ UNCHANGED <<airfoils, span, pc, k, curves>>

\* The front cap loop ends.
FrontDone ==
    /\ pc = "front"
    /\ ~(i < N - 1)
    /\ pc' = "back"
    /\ i' = 0
    /\ UNCHANGED <<airfoils, span, k, curves, out, facets>>

\* One pass of the back cap loop: one facet when the index is capped.
BackStep ==
    /\ pc = "back"
    /\ i < N - 1
    /\ IF Capped(N, i)
       THEN LET t1 == <<Upper(i, "back"), Upper(i + 1, "back"),
                        Lower(N - 1 - i, "back")>>
            IN  /\ out' = WriteFacet(out, NormalUp, t1)
                /\ facets' = Append(facets, Facet("back", 1, t1))
       ELSE UNCHANGED <<out, facets>>
    /\ i' = i + 1
    /\ UNCHANGED <<airfoils, span, pc, k, curves>>

\* The back cap loop ends, and with it the body of the loop over the shapes.
BackDone ==
    /\ pc = "back"
    /\ ~(i < N - 1)
    /\ pc' = "shape"
    /\ k' = k + 1
    /\ UNCHANGED <<airfoils, span, curves, i, out, facets>>

\* The loop over the shapes ends: the endsolid line, and the file is closed.
CloseFile ==
    /\ pc = "shape"
    /\ k > Len(airfoils)
    /\ out' = Append(out, Line("endsolid", SolidName, <<>>))
    /\ pc' = "done"
    /\ UNCHANGED <<airfoils, span, k, curves, i, facets>>

Next ==
    \/ OpenFile
    \/ GenerateCurve
    \/ GenerateRaises
    \/ TopStep
    \/ TopDone
    \/ BottomStep
    \/ BottomDone
    \/ FrontStep
    \/ FrontDone
    \/ BackStep
    \/ BackDone
    \/ CloseFile

Spec == Init /\ [][Next]_vars

\* ------------------------------------------------------------ properties
\* The lines of the file of one kind, and the facets recorded for shape s
\* in one section.
LinesOfKind(kind) == SelectSeq(out, LAMBDA l : l.kind = kind)

FacetsOf(s, section) ==
    SelectSeq(facets, LAMBDA f : f.shape = s /\ f.section = section)

FacetsOfShape(s) == SelectSeq(facets, LAMBDA f : f.shape = s)

\* The seven lines of the j-th facet of the file, and line x of them.
OutFacet(j) == SubSeq(out, 7 * (j - 1) + 2, 7 * j + 1)

OutLine(j, x) == out[7 * (j - 1) + 1 + x]

\* The body of the loop over the shapes has run to its end for shape s.
Finished(s) == s < k \/ pc = "done"

\* The position of a section in the order top, bottom, front cap, back cap.
SectionRank(section) ==
    CASE section = "top" -> 1
      [] section = "bottom" -> 2
      [] section = "front" -> 3
      [] section = "back" -> 4

\* C1: a single shape whose curve has n >= 1 points, written with a positive
\* span, gives 4(n-1) + 2 floor(n/2) facets in the file: 2(n-1) of the top
\* shell, 2(n-1) of the bottom shell, floor(n/2) of the front cap and
\* floor(n/2) of the back cap.
C1_TriangleCount ==
    (pc = "done" /\ Len(airfoils) = 1 /\ airfoils[1].n_points >= 1 /\ span > 0) =>
        LET n == airfoils[1].n_points
        IN  /\ Len(LinesOfKind("facet normal")) = 4 * (n - 1) + 2 * (n \div 2)
            /\ Len(facets) = 4 * (n - 1) + 2 * (n \div 2)
            /\ Len(FacetsOf(1, "top")) = 2 * (n - 1)
            /\ Len(FacetsOf(1, "bottom")) = 2 * (n - 1)
            /\ Len(FacetsOf(1, "front")) = n \div 2
            /\ Len(FacetsOf(1, "back")) = n \div 2

\* A single shape of at least three points, where n - 1 and floor(n/2)
\* differ, has been written to the end.
C1_Witness ==
    /\ pc = "done"
    /\ Len(airfoils) = 1
    /\ airfoils[1].n_points >= 3
    /\ Len(FacetsOf(1, "back")) > 0

\* The order of two facets: by shape, then section, then index, then the
\* first before the second triangle of a pass.  The order is transitive, so
\* a file is in order when every facet is before the one that follows it.
Before(f, g) ==
    \/ f.shape < g.shape
    \/ /\ f.shape = g.shape
       /\ \/ SectionRank(f.section) < SectionRank(g.section)
          \/ /\ f.section = g.section
             /\ \/ f.i < g.i
                \/ f.i = g.i /\ f.t < g.t

\* The normal the facets of a section carry.
SectionNormal(section) ==
    IF section \in {"top", "back"} THEN NormalUp ELSE NormalDown

\* C2: the facets of the file are in the order of the shapes in the list,
\* within a shape in the order top shell, bottom shell, front cap, back cap,
\* and within a section in increasing index i.
C2_EmissionOrder ==
    \A a \in 1 .. Len(facets) :
          /\ Len(out) >= 1 + 7 * a
          /\ OutLine(a, 1) = Line("facet normal", "", SectionNormal(facets[a].section))
          /\ facets[a].shape \in 1 .. Len(airfoils)
          /\ a < Len(facets) => Before(facets[a], facets[a + 1])

\* Two shapes have been written, the second through its back cap, with
\* more than one pass in a section.
C2_Witness ==
    /\ pc = "done"
    /\ Len(FacetsOf(1, "back")) > 1
    /\ Len(FacetsOf(2, "back")) > 1

\* The kinds of the lines of a facet.
FacetKinds ==
    <<"facet normal", "outer loop", "vertex", "vertex", "vertex", "endloop", "endfacet">>

\* C3: a file written to the end begins with the one solid line, ends with
\* the one endsolid line of the same name, and holds between them whole
\* facets only: facet, outer loop, three vertex lines, endloop, endfacet.
\* The endsolid line is written only after every shape, and is the last.
C3_DocumentStructure ==
    /\ \A j \in 1 .. Len(out) :
          out[j].kind = "endsolid" =>
              /\ j = Len(out)
              /\ pc = "done"
              /\ k > Len(airfoils)
    /\ pc = "done" =>
          /\ Len(out) >= 2
          /\ out[1] = Line("solid", SolidName, <<>>)
          /\ out[Len(out)] = Line("endsolid", out[1].name, <<>>)
          /\ Len(LinesOfKind("solid")) = 1
          /\ Len(LinesOfKind("endsolid")) = 1
          /\ (Len(out) - 2) % 7 = 0
          /\ \A j \in 1 .. ((Len(out) - 2) \div 7) :
                \A x \in 1 .. 7 : OutLine(j, x).kind = FacetKinds[x]

\* A list of shapes with facets and the empty list have both been written
\* to the end.
C3_Witness == pc = "done" /\ Len(out) > 2 /\ Len(airfoils) = MaxShapes

C3_WitnessEmpty == pc = "done" /\ Len(airfoils) = 0 /\ Len(out) = 2

\* 0.000000 and 1.000000
SixZeros == <<0, 0, 0, 0, 0, 0>>

\* The planes of the three vertices of the j-th facet.
PlaneOf(j, x) == facets[j].verts[x].plane

\* C4, as stated: every x, y and z of every vertex line has exactly six
\* digits after the decimal point, the z of a vertex at span-position 0
\* being 0.000000.
C4_Original ==
    /\ \A j \in 1 .. Len(out) :
          out[j].kind = "vertex" =>
              \A c \in 1 .. 3 : Len(out[j].nums[c].frac) = 6
    /\ \A j \in 1 .. Len(facets) : \A x \in 1 .. 3 :
          PlaneOf(j, x) = "front" =>
              OutLine(j, 2 + x).nums[3] = NumText(FALSE, 0, SixZeros)

\* C4, amended: every x and y of every vertex line has exactly six digits
\* after the decimal point, and so has the z of a vertex at span-position
\* span, which is 1.000000 for span = 1.0; the z of a vertex at
\* span-position 0 is the literal 0.0.
C4_VertexFormat ==
    /\ \A j \in 1 .. Len(out) :
          out[j].kind = "vertex" =>
              /\ Len(out[j].nums) = 3
              /\ \A c \in 1 .. 2 : Len(out[j].nums[c].frac) = 6
    /\ \A j \in 1 .. Len(facets) : \A x \in 1 .. 3 :
          LET z == OutLine(j, 2 + x).nums[3]
          IN  IF PlaneOf(j, x) = "front"
              THEN z = NumText(FALSE, 0, <<0>>)
              ELSE /\ Len(z.frac) = 6
                   /\ span = Scale => z = NumText(FALSE, 1, SixZeros)
                   /\ span = 1000000 => z = NumText(FALSE, 0, <<1, 0, 0, 0, 0, 0>>)

\* Vertices of both planes have been written with span = 1.0, one of them
\* with a negative coordinate.
C4_Witness ==
    /\ span = Scale
    /\ \E j \in 1 .. Len(facets) :
          /\ \E x \in 1 .. 3 : PlaneOf(j, x) = "front"
          /\ \E x \in 1 .. 3 : PlaneOf(j, x) = "back"
    /\ \E j \in 1 .. Len(out) : out[j].kind = "vertex" /\ out[j].nums[2].neg

\* The number of facets the writer gives a curve of n points.
TriCount(n) == IF n < 1 THEN 0 ELSE 4 * (n - 1) + 2 * (n \div 2)

CurveOf(s) == curves[s]

\* The three numbers of the vertex line of vertex v of curve c.
ExpVertex(c, sp, v) ==
    LET z == IF v.plane = "front" THEN NumText(FALSE, 0, <<0>>) ELSE Fmt6(sp)
    IN  IF v.surface = "upper"
        THEN <<Fmt6(c.x_upper[v.sub + 1]), Fmt6(c.y_upper[v.sub + 1]), z>>
        ELSE <<Fmt6(c.x_lower[v.sub + 1]), Fmt6(c.y_lower[v.sub + 1]), z>>

ExpFacet(c, sp, nrm, vs) ==
    FacetLines(nrm, ExpVertex(c, sp, vs[1]), ExpVertex(c, sp, vs[2]),
               ExpVertex(c, sp, vs[3]))

\* The x, y and z of the three vertex lines of the a-th facet of the file.
VertexSet(a) == {OutLine(a, 2 + x).nums : x \in 1 .. 3}

\* The indices of the facets of a section of a finished shape, in the order
\* of the file.
Indices(s, section) ==
    LET fs == FacetsOf(s, section)
    IN  [x \in 1 .. Len(fs) |-> fs[x].i]

\* 0, 1, ..., m - 1
UpTo(m) == [x \in 1 .. m |-> x - 1]

\* C6: caps are written for the indices i < floor(n/2) only: one front-cap
\* facet with normal (0,0,-1) and its vertices at z = 0, one back-cap facet
\* with normal (0,0,1) and its vertices at z = span, each joining upper[i],
\* lower[n-1-i] and upper[i+1]; none for i >= floor(n/2).
C6_EndCaps ==
    /\ \A s \in 1 .. Len(airfoils) :
          Finished(s) =>
              /\ Indices(s, "front") = UpTo(airfoils[s].n_points \div 2)
              /\ Indices(s, "back") = UpTo(airfoils[s].n_points \div 2)
    /\ \A a \in 1 .. Len(facets) :
          LET f == facets[a]
              n == airfoils[f.shape].n_points
              c == CurveOf(f.shape)
              plane == f.section
              joined == {ExpVertex(c, span, Upper(f.i, plane)),
                         ExpVertex(c, span, Lower(n - 1 - f.i, plane)),
                         ExpVertex(c, span, Upper(f.i + 1, plane))}
          IN  /\ f.section = "front" =>
                    /\ f.i < n \div 2
                    /\ OutLine(a, 1).nums = <<ZeroLit, ZeroLit, MinusOneLit>>
                    /\ VertexSet(a) = joined
                    /\ \A v \in VertexSet(a) : v[3] = ZeroLit
              /\ f.section = "back" =>
                    /\ f.i < n \div 2
                    /\ OutLine(a, 1).nums = <<ZeroLit, ZeroLit, OneLit>>
                    /\ VertexSet(a) = joined
                    /\ \A v \in VertexSet(a) : v[3] = Fmt6(span)

\* A shape of an odd number of points, where the last index below n - 1 is
\* not capped, has been written with its caps.
C6_Witness ==
    \E s \in 1 .. Len(airfoils) :
        /\ Finished(s)
        /\ airfoils[s].n_points >= 3
        /\ airfoils[s].n_points % 2 = 1
        /\ Len(FacetsOf(s, "back")) > 0

\* The two facets of the top shell and of the bottom shell for the pair of
\* stations j, j + 1, in the vertex order of the claim.
ExpTopPass(c, sp, j) ==
    ExpFacet(c, sp, <<ZeroLit, ZeroLit, OneLit>>,
             <<Upper(j, "front"), Upper(j + 1, "front"), Upper(j, "back")>>)
    \o ExpFacet(c, sp, <<ZeroLit, ZeroLit, OneLit>>,
                <<Upper(j + 1, "front"), Upper(j + 1, "back"), Upper(j, "back")>>)

ExpBottomPass(c, sp, j) ==
    ExpFacet(c, sp, <<ZeroLit, ZeroLit, MinusOneLit>>,
             <<Lower(j, "front"), Lower(j, "back"), Lower(j + 1, "front")>>)
    \o ExpFacet(c, sp, <<ZeroLit, ZeroLit, MinusOneLit>>,
                <<Lower(j + 1, "front"), Lower(j, "back"), Lower(j + 1, "back")>>)

\* C7: for every pair of stations i, i + 1 with 0 <= i < n - 1 the shell is
\* four facets in a fixed vertex order, two of the upper surface with
\* normal (0,0,1) and two of the lower surface with normal (0,0,-1).
C7_ShellTriangles ==
    /\ \A s \in 1 .. Len(airfoils) :
          Finished(s) =>
              LET m == IF airfoils[s].n_points < 1 THEN 0 ELSE airfoils[s].n_points - 1
                  twice == [x \in 1 .. 2 * m |-> (x - 1) \div 2]
              IN  /\ Indices(s, "top") = twice
                  /\ Indices(s, "bottom") = twice
    /\ \A a \in 1 .. Len(facets) :
          LET f == facets[a]
              c == CurveOf(f.shape)
          IN  /\ (f.section = "top" /\ f.t = 1) =>
                    /\ a < Len(facets)
                    /\ facets[a + 1].t = 2
                    /\ OutFacet(a) \o OutFacet(a + 1) = ExpTopPass(c, span, f.i)
              /\ (f.section = "bottom" /\ f.t = 1) =>
                    /\ a < Len(facets)
                    /\ facets[a + 1].t = 2
                    /\ OutFacet(a) \o OutFacet(a + 1) = ExpBottomPass(c, span, f.i)
              /\ (f.section \in {"top", "bottom"} /\ f.t = 2) =>
                    /\ a > 1
                    /\ facets[a - 1].t = 1
                    /\ facets[a - 1].section = f.section
                    /\ facets[a - 1].i = f.i

\* A rotated shape, whose upper and lower points differ, has been written
\* with both shells.
C7_Witness ==
    \E s \in 1 .. Len(airfoils) :
        /\ Finished(s)
        /\ airfoils[s].angle # 0
        /\ Len(FacetsOf(s, "bottom")) >= 4

\* The cap facets for index j of a curve of n points, in the vertex order
\* of the writer.
ExpFrontPass(c, sp, n, j) ==
    IF j < n \div 2
    THEN ExpFacet(c, sp, <<ZeroLit, ZeroLit, MinusOneLit>>,
                  <<Upper(j, "front"), Lower(n - 1 - j, "front"), Upper(j + 1, "front")>>)
    ELSE <<>>

ExpBackPass(c, sp, n, j) ==
    IF j < n \div 2
    THEN ExpFacet(c, sp, <<ZeroLit, ZeroLit, OneLit>>,
                  <<Upper(j, "back"), Upper(j + 1, "back"), Lower(n - 1 - j, "back")>>)
    ELSE <<>>

\* Pass(0) \o Pass(1) \o ... \o Pass(m - 1)
RECURSIVE Passes(_, _)
Passes(Pass(_), m) ==
    IF m <= 0 THEN <<>> ELSE Passes(Pass, m - 1) \o Pass(m - 1)

\* The lines of a shape, from its curve c of n points and the span alone.
ShapeText(c, n, sp) ==
        Passes(LAMBDA j : ExpTopPass(c, sp, j), n - 1)
        \o Passes(LAMBDA j : ExpBottomPass(c, sp, j), n - 1)
        \o Passes(LAMBDA j : ExpFrontPass(c, sp, n, j), n - 1)
        \o Passes(LAMBDA j : ExpBackPass(c, sp, n, j), n - 1)

\* The lines of the file that belong to the facets of shape s, among the
\* first m facets.
RECURSIVE ShapeLines(_, _)
ShapeLines(s, m) ==
    IF m = 0 THEN <<>>
    ELSE ShapeLines(s, m - 1) \o (IF facets[m].shape = s THEN OutFacet(m) ELSE <<>>)

\* out is the beginning of o.
IsPrefix(o1, o2) == Len(o1) <= Len(o2) /\ SubSeq(o2, 1, Len(o1)) = o1

\* The lines of every finished shape are the text of the curve of its own
\* parameters, and of the span.
OwnText ==
    \A s \in 1 .. Len(airfoils) :
        Finished(s) =>
            \A c \in {Generate(airfoils[s])} :
                ShapeLines(s, Len(facets)) = ShapeText(c, airfoils[s].n_points, span)

\* C8: the lines written for the shape at a position of the list are a
\* function of that shape's parameters and of the span alone, whatever the
\* other shapes of the list are, and a step of the writer only adds lines
\* after those already written.
C8_Additive == []OwnText /\ [][IsPrefix(out, out')]_vars

\* Two different shapes have been written, one after the other, the second
\* placed away from the origin.
C8_Witness ==
    /\ pc = "done"
    /\ Len(airfoils) = 2
    /\ airfoils[1] # airfoils[2]
    /\ airfoils[1].x_offset # 0
    /\ Len(FacetsOfShape(1)) > 0
    /\ Len(FacetsOfShape(2)) > 0

\* The generator has returned the curve of shape k.
Returned == pc \in {"top", "bottom", "front", "back"}

\* C9, as stated: the curve returned has n_points upper and n_points lower
\* points, and upper[i].x = lower[i].x at every index.
C9_Original ==
    Returned =>
        /\ Len(curve.x_upper) = airfoils[k].n_points
        /\ Len(curve.x_lower) = airfoils[k].n_points
        /\ \A j \in 0 .. (airfoils[k].n_points - 1) :
              PyIndex(curve.x_upper, j) = PyIndex(curve.x_lower, j)

\* C9, amended: whenever the generator returns, all four arrays have
\* n_points entries, and upper[i].x = lower[i].x at every index when the
\* angle of attack is 0.
C9_SharedStations ==
    Returned =>
        /\ Len(curve.x_upper) = airfoils[k].n_points
        /\ Len(curve.y_upper) = airfoils[k].n_points
        /\ Len(curve.x_lower) = airfoils[k].n_points
        /\ Len(curve.y_lower) = airfoils[k].n_points
        /\ airfoils[k].angle = 0 =>
              \A j \in 0 .. (airfoils[k].n_points - 1) :
                  PyIndex(curve.x_upper, j) = PyIndex(curve.x_lower, j)

\* The generator has returned a curve of several points of a shape that is
\* not rotated and has thickness.
C9_Witness ==
    /\ Returned
    /\ airfoils[k].angle = 0
    /\ airfoils[k].n_points >= 3
    /\ PyIndex(curve.y_upper, 1) # PyIndex(curve.y_lower, 1)

\* C10: every subscript the writer reads a point at is inside 0 .. n-1: the
\* shells read at i and i + 1 <= n - 1; a cap reads the upper surface at i
\* and i + 1 <= n - 1 and the lower surface at n - 1 - i, which is at least
\* ceil(n/2) and at most n - 1, so no subscript counts from the end.
C10_IndexBounds ==
    /\ Returned => \A a \in {curve.x_upper, curve.y_upper, curve.x_lower, curve.y_lower} :
                       Len(a) = airfoils[k].n_points
    /\ \A a \in 1 .. Len(facets) :
          LET f == facets[a]
              n == airfoils[f.shape].n_points
          IN  /\ f.i >= 0
              /\ f.i + 1 <= n - 1
              /\ \A x \in 1 .. 3 : f.verts[x].sub \in 0 .. (n - 1)
              /\ f.section = "top" =>
                    \A x \in 1 .. 3 :
                        f.verts[x].surface = "upper" /\ f.verts[x].sub \in {f.i, f.i + 1}
              /\ f.section = "bottom" =>
                    \A x \in 1 .. 3 :
                        f.verts[x].surface = "lower" /\ f.verts[x].sub \in {f.i, f.i + 1}
              /\ f.section \in {"front", "back"} =>
                    /\ f.i < n \div 2
                    /\ \A x \in 1 .. 3 :
                          IF f.verts[x].surface = "upper"
                          THEN f.verts[x].sub \in {f.i, f.i + 1}
                          ELSE /\ f.verts[x].sub = n - 1 - f.i
                               /\ f.verts[x].sub >= (n + 1) \div 2
                               /\ f.verts[x].sub <= n - 1

\* A cap facet of a curve of an odd number of points has been written: its
\* lower subscript is n - 1 - i with i the last capped index.
C10_Witness ==
    \E a \in 1 .. Len(facets) :
        /\ facets[a].section = "back"
        /\ airfoils[facets[a].shape].n_points % 2 = 1
        /\ facets[a].i = (airfoils[facets[a].shape].n_points \div 2) - 1
====
